---- MODULE Spec2Model ----
(***************************************************************************)
(* Model of ai-diet-coach-line: the metabolic calculator and trend         *)
(* analyser of ai_diet_coach/core.py and the conversation state machine    *)
(* of line_bot/app.py (the body of callback's loop over message events).   *)
(*                                                                         *)
(* Representation of Python values.  A text is the sequence of its         *)
(* whitespace-separated tokens (text.strip() and text.split() agree on     *)
(* it).  A float is an integer count of thousandths (65.2 is 65200); real  *)
(* arithmetic is exact, rounding is round-half-even as Python's round().   *)
(* A datetime is an integer count of half days, so that timedelta.days is  *)
(* a floor division and not the identity.                                  *)
(***************************************************************************)
EXTENDS Integers, Sequences, FiniteSets, TLC

VARIABLES store, last, planArgs, planRes, trendArgs, trendRes, flight

vars == <<store, last, planArgs, planRes, trendArgs, trendRes, flight>>

(***************************************************************************)
(* Bounds of the model.                                                    *)
(***************************************************************************)
\* longest history a log command is explored on
MaxHist == 2
\* latest reading of the clock, in half days
MaxTime == 1

(***************************************************************************)
(* Python values held in the profile dict.                                 *)
(***************************************************************************)
Absent == [t |-> "absent", s |-> "", n |-> 0]

PyNone == [t |-> "none", s |-> "", n |-> 0]

PyStr(x) == [t |-> "str", s |-> x, n |-> 0]

PyInt(i) == [t |-> "int", s |-> "", n |-> i]

PyFloat(m) == [t |-> "float", s |-> "", n |-> m]

(***************************************************************************)
(* Python built-ins on tokens.                                             *)
(***************************************************************************)
\* str.lower() on the tokens that hold an upper-case letter
UpperTokens == ("Male" :> "male") @@ ("START" :> "start")

LowerTok(tok) == IF tok \in DOMAIN UpperTokens THEN UpperTokens[tok] ELSE tok

Lower(text) == [i \in 1..Len(text) |-> LowerTok(text[i])]

\* the tokens int() accepts, with their values
IntLiterals == ("60" :> 60) @@ ("25" :> 25)

\* the tokens float() accepts, with their values in thousandths
FloatLiterals ==
    ("60" :> 60000) @@ ("25" :> 25000) @@ ("65.2" :> 65200) @@ ("64.038" :> 64038)

\* int(text): a ValueError unless the text is one integer literal
IntParses(text) == Len(text) = 1 /\ text[1] \in DOMAIN IntLiterals

IntOf(text) == IntLiterals[text[1]]

\* float(text): a ValueError unless the text is one decimal literal
FloatParses(text) == Len(text) = 1 /\ text[1] \in DOMAIN FloatLiterals

FloatOf(text) == FloatLiterals[text[1]]

\* round(n / d) for d > 0: to the nearest integer, ties to the even one
RoundHalfEven(n, d) ==
    LET q == n \div d
        r == n % d
    IN  IF 2 * r < d THEN q
        ELSE IF 2 * r > d THEN q + 1
        ELSE IF q % 2 = 0 THEN q ELSE q + 1

\* round(x, 2) of a float in thousandths, in thousandths
Round2(m) == 10 * RoundHalfEven(m, 10)

Max(a, b) == IF a >= b THEN a ELSE b

Min(a, b) == IF a <= b THEN a ELSE b

Abs(a) == IF a < 0 THEN 0 - a ELSE a

(***************************************************************************)
(* ai_diet_coach/core.py: calculations.  bmr and tdee are in hundredths of *)
(* a kcal (they are rounded to 2 decimals), weights and heights in         *)
(* thousandths.                                                            *)
(***************************************************************************)
\* calculate_bmr raises ValueError for such a sex
BmrRaises(sex) == LowerTok(sex) \notin {"male", "female"}

\* 10 * weight + 6.25 * height - 5 * age + (5 | -161), rounded to 2 decimals
calculate_bmr(sex, weight_kg, height_cm, age) ==
    RoundHalfEven(40 * weight_kg + 25 * height_cm - 20000 * age
                    + (IF LowerTok(sex) = "male" THEN 20000 ELSE 0 - 644000),
                  40)

\* the activity factors, in thousandths
factors ==
    ("sedentary" :> 1200) @@ ("light" :> 1375) @@ ("moderate" :> 1550)
        @@ ("active" :> 1725) @@ ("very_active" :> 1900)

\* activity_factor raises ValueError for such an activity
ActivityRaises(activity) == activity \notin DOMAIN factors

activity_factor(activity) == factors[activity]

calculate_tdee(bmr, activity) == RoundHalfEven(bmr * activity_factor(activity), 1000)

\* 1 kg of body mass in kcal
KcalPerKg == 7700

\* the kcal of a thousandth of a kg, over 10
KcalPerGram10 == KcalPerKg \div 100

\* the safe range of the daily delta, in kcal
CapSurplus == 500

CapDeficit == -750

\* the mode presets, in kcal
PresetCut == -500

PresetBulk == 300

\* the floor of target_kcal
FloorKcal == 1200

CapNote == "safety_cap"

\* mutant of ModePreset: every mode but bulk gets the cut preset
ModePresetCutDefault(mode_calc) ==
    IF mode_calc = "bulk" THEN PresetBulk ELSE PresetCut

\* the preset of a (lower-cased) mode
ModePreset(mode_calc) ==
    IF mode_calc = "cut" THEN PresetCut
    ELSE IF mode_calc = "bulk" THEN PresetBulk
    ELSE 0

\* goal/deadline targeting applies
Targeted(goal_weight, deadline_days) ==
    goal_weight.t # "none" /\ deadline_days.t # "none" /\ deadline_days.n > 0

\* raw_daily is RawNum / DeltaDen kcal
DeltaDen(goal_weight, deadline_days) ==
    IF Targeted(goal_weight, deadline_days) THEN 10 * deadline_days.n ELSE 1

RawNum(weight_kg, goal_weight, deadline_days) ==
    IF Targeted(goal_weight, deadline_days)
    THEN (goal_weight.n - weight_kg) * KcalPerGram10
    ELSE 0

\* mutant of ClampDaily: the lower cap is forgotten
ClampDailyUpperOnly(raw, den) == Min(raw, CapSurplus * den)

\* daily_change = max(min(raw_daily, 500.0), -750.0), over the denominator den
ClampDaily(raw, den) == Max(Min(raw, CapSurplus * den), CapDeficit * den)

\* abs(raw_daily - daily_change) > 1e-6: the cap changed the value
CapChangedAny(raw, daily, den) == raw # daily

CapChanged(raw, daily, den) == Abs(raw - daily) > den \div 1000000

\* round(tdee + delta_kcal) for tdee in hundredths and delta_kcal = delta / den;
\* the whole kcal are split off, an even number of them, before the rounding
AddRound(tdee, delta, den) ==
    LET q == delta \div den
        r == delta % den
        whole == (tdee + 100 * q) \div 100
        cents == (tdee + 100 * q) % 100
        odd == whole % 2
    IN  (whole - odd) + RoundHalfEven((cents + 100 * odd) * den + 100 * r, 100 * den)

\* mutant of Floored: no floor
FlooredNot(kcal) == kcal

\* max(kcal, 1200)
Floored(kcal) == Max(kcal, FloorKcal)

\* build_plan raises what calculate_bmr and activity_factor raise
BuildPlanRaises(sex, activity) == BmrRaises(sex) \/ ActivityRaises(activity)

\* mode is "" for a falsy mode; goal_weight and deadline_days are PyNone or a number
build_plan(sex, age, height_cm, weight_kg, activity, mode, goal_weight, deadline_days) ==
    LET bmr == calculate_bmr(sex, weight_kg, height_cm, age)
        tdee == calculate_tdee(bmr, activity)
        mode_calc == LowerTok(IF mode = "" THEN "recomp" ELSE mode)
        den == DeltaDen(goal_weight, deadline_days)
        raw == RawNum(weight_kg, goal_weight, deadline_days)
        daily == ClampDaily(raw, den)
        notes == IF Targeted(goal_weight, deadline_days) /\ CapChanged(raw, daily, den)
                 THEN <<CapNote>> ELSE <<>>
        \* delta_kcal is delta / den
        delta == IF daily = 0 THEN ModePreset(mode_calc) * den ELSE daily
        target_kcal == Floored(AddRound(tdee, delta, den))
        \* grams in ten-thousandths
        protein == Max(20 * weight_kg, 16 * weight_kg)
        fat == Max(6 * weight_kg, 400000)
        remaining == Max(target_kcal * 10000 - (protein * 4 + fat * 9), 1000000)
    IN  [bmr |-> bmr,
         tdee |-> tdee,
         maintenance_kcal |-> RoundHalfEven(tdee, 100),
         target_kcal |-> target_kcal,
         delta_kcal |-> RoundHalfEven(delta, den),
         mode |-> mode_calc,
         protein_g |-> RoundHalfEven(protein, 10000),
         fat_g |-> RoundHalfEven(fat, 10000),
         carb_g |-> RoundHalfEven(remaining, 40000),
         notes |-> notes]

(***************************************************************************)
(* ai_diet_coach/core.py: weight logging and suggestions.  A history is a  *)
(* sequence of [date, weight].                                             *)
(***************************************************************************)
HalfDaysPerDay == 2

\* timedelta.days of the difference of two datetimes
DaysBetween(later, earlier) == (later - earlier) \div HalfDaysPerDay

\* mutant of LastN: the whole history
LastNAll(history, n) == history

\* history[-n:]
LastN(history, n) == SubSeq(history, Max(1, Len(history) - n + 1), Len(history))

\* delta / days < thr / 1000, for days # 0
ChangeBelow(delta, days, thr) ==
    IF days > 0 THEN delta < thr * days ELSE delta > thr * days

\* mutant of ChangeAbove: the threshold taken in kg
ChangeAboveKg(delta, days, thr) == delta > 1000 * thr * days

ChangeAbove(delta, days, thr) ==
    IF days > 0 THEN delta > thr * days ELSE delta < thr * days

suggest_after_log(history, mode, recent_window) ==
    IF history = <<>> THEN "start_logging"
    ELSE
    LET m == LowerTok(IF mode = "" THEN "recomp" ELSE mode)
        recent == LastN(history, recent_window)
        two == Len(recent) >= 2
        delta == IF two THEN recent[Len(recent)].weight - recent[1].weight ELSE 0
        between == IF two THEN DaysBetween(recent[Len(recent)].date, recent[1].date) ELSE 0
        days == IF between = 0 THEN 1 ELSE between
    IN  IF m = "cut" THEN
            IF ChangeBelow(delta, days, -150) THEN "cut_too_fast"
            ELSE IF ChangeAbove(delta, days, 50) THEN "cut_gaining"
            ELSE "cut_good_pace"
        ELSE IF m = "bulk" THEN
            IF ChangeAbove(delta, days, 250) THEN "bulk_too_fast"
            ELSE IF ChangeBelow(delta, days, 50) THEN "bulk_hard_to_gain"
            ELSE "bulk_good_pace"
        ELSE
            IF Abs(delta) < 50 * Abs(days) THEN "recomp_maintaining"
            ELSE "recomp_fluctuation"

RECURSIVE SumWeights(_)
SumWeights(window) ==
    IF window = <<>> THEN 0 ELSE Head(window).weight + SumWeights(Tail(window))

\* mutant of InWindow: strictly less than days
InWindowStrict(cutoff, date, days) == DaysBetween(cutoff, date) < days

\* (cutoff - x["date"]).days <= days
InWindow(cutoff, date, days) == DaysBetween(cutoff, date) <= days

EmptySummary ==
    [count |-> 0, from |-> 0, to |-> 0, start |-> 0, end |-> 0, avg |-> 0,
     delta |-> 0, trend |-> ""]

\* from and to are day numbers (date-only), avg is in hundredths
summarise_history(history, days) ==
    IF history = <<>> THEN EmptySummary
    ELSE
    LET cutoff == history[Len(history)].date
        window == SelectSeq(history, LAMBDA x : InWindow(cutoff, x.date, days))
    IN  IF window = <<>> THEN EmptySummary
        ELSE
        LET delta == window[Len(window)].weight - window[1].weight
        IN  [count |-> Len(window),
             from |-> window[1].date \div HalfDaysPerDay,
             to |-> window[Len(window)].date \div HalfDaysPerDay,
             start |-> Round2(window[1].weight),
             end |-> Round2(window[Len(window)].weight),
             avg |-> RoundHalfEven(SumWeights(window), 10 * Len(window)),
             delta |-> Round2(delta),
             trend |-> IF delta < -300 THEN "down"
                       ELSE IF delta > 300 THEN "up" ELSE "flat"]

(***************************************************************************)
(* ai_diet_coach/core.py: profile helpers.  A profile is a function from   *)
(* ProfileKeys to values, Absent for a key the dict does not hold.         *)
(***************************************************************************)
progress_bar(done, total) ==
    LET d == Max(0, Min(done, total))
    IN  [filled |-> IF total # 0 THEN (10 * d) \div total ELSE 0, done |-> d, total |-> total]

required == {"sex", "age", "height_cm", "weight_kg", "activity", "mode"}

\* validate_profile raises ValueError: some required key is missing
ValidateRaises(p) == \E k \in required : p[k] = Absent

(***************************************************************************)
(* line_bot/app.py: the session, its store and the texts of the model.     *)
(***************************************************************************)
ONBOARD_KEYS ==
    <<"sex", "age", "height_cm", "weight_kg", "activity", "mode", "goal_weight",
      "deadline_days">>

ProfileKeys == {ONBOARD_KEYS[i] : i \in 1..Len(ONBOARD_KEYS)}

EmptyProfile == [k \in ProfileKeys |-> Absent]

\* the session load_state returns for a missing or corrupt file
DefaultState ==
    [profile |-> EmptyProfile, history |-> <<>>, stage |-> "idle", onboard_idx |-> 0]

\* datetime.isoformat and datetime.fromisoformat
IsoFormat(date) == [iso |-> date]

FromIsoFormat(x) == x.iso

\* the file of a user who has none
NoFile == [exists |-> FALSE, profile |-> EmptyProfile, history |-> <<>>, stage |-> "", onboard_idx |-> 0]

\* load_state on the file _p(uid)
LoadFile(file) ==
    IF ~file.exists THEN DefaultState
    ELSE [profile |-> file.profile,
          history |-> [i \in 1..Len(file.history) |->
                          [date |-> FromIsoFormat(file.history[i].date),
                           weight |-> file.history[i].weight]],
          stage |-> file.stage,
          onboard_idx |-> file.onboard_idx]

\* mutant of load_state: one file for all users
LoadShared(uid) == LoadFile(store["u1"])

load_state(uid) == LoadFile(store[uid])

\* the file save_state writes
DumpState(state) ==
    [exists |-> TRUE,
     profile |-> state.profile,
     history |-> [i \in 1..Len(state.history) |->
                     [date |-> IsoFormat(state.history[i].date),
                      weight |-> state.history[i].weight]],
     stage |-> state.stage,
     onboard_idx |-> state.onboard_idx]

save_state(uid, state) == store' = [store EXCEPT ![uid] = DumpState(state)]

\* the texts users send
Messages ==
    { <<"help">>, <<"reset">>, <<"START">>, <<"plan">>, <<"history">>, <<"guide">>,
      <<"log", "64.038">>, <<"log", "abc">>,
      <<"profile", "show">>,
      <<"profile", "set", "sex", "other">>,
      <<"profile", "set", "age", "abc">>,
      <<"profile", "set", "age">>,
      <<"Male">>, <<"60">>, <<"abc">>, <<"active">>, <<"cut">>, <<"skip">> }

\* mutant of Dispatch: the onboarding test comes before the command tests
DispatchOnboardingFirst(text, state) ==
    LET low == Lower(text)
    IN  IF state.stage = "onboarding" THEN "onboarding"
        ELSE IF Len(low) = 1 /\ low[1] \in {"help", "reset", "start", "plan", "history", "guide"}
        THEN low[1]
        ELSE IF Len(low) >= 2 /\ low[1] = "log" THEN "log"
        ELSE IF Len(low) >= 2 /\ low[1] = "profile" /\ low[2] = "show" THEN "profile show"
        ELSE IF Len(low) >= 3 /\ low[1] = "profile" /\ low[2] = "set" THEN "profile set"
        ELSE "fallback"

\* the branch of callback a text takes, in the order of the code's tests (the
\* Japanese aliases of help, reset and start are not among the texts)
Dispatch(text, state) ==
    LET low == Lower(text)
    IN  IF Len(low) = 1 /\ low[1] = "help" THEN "help"
        ELSE IF Len(low) = 1 /\ low[1] = "reset" THEN "reset"
        ELSE IF Len(low) = 1 /\ low[1] = "start" THEN "start"
        ELSE IF Len(low) = 1 /\ low[1] = "plan" THEN "plan"
        ELSE IF Len(low) >= 2 /\ low[1] = "log" THEN "log"
        ELSE IF Len(low) = 1 /\ low[1] = "history" THEN "history"
        ELSE IF Len(low) = 1 /\ low[1] = "guide" THEN "guide"
        ELSE IF Len(low) >= 2 /\ low[1] = "profile" /\ low[2] = "show" THEN "profile show"
        ELSE IF Len(low) >= 3 /\ low[1] = "profile" /\ low[2] = "set" THEN "profile set"
        ELSE IF state.stage = "onboarding" THEN "onboarding"
        ELSE "fallback"

(***************************************************************************)
(* Replies.  last records the step just taken: the user, the text, whether *)
(* an exception left callback (no reply is sent then), and the reply.      *)
(***************************************************************************)
NoBar == [filled |-> 0, done |-> 0, total |-> 0]

NoPlan ==
    [bmr |-> 0, tdee |-> 0, maintenance_kcal |-> 0, target_kcal |-> 0, delta_kcal |-> 0,
     mode |-> "", protein_g |-> 0, fat_g |-> 0, carb_g |-> 0, notes |-> <<>>]

Reply(kind) ==
    [kind |-> kind, key |-> "", value |-> Absent, pb |-> NoBar, plan |-> NoPlan,
     sugg |-> "", s7 |-> EmptySummary, s30 |-> EmptySummary]

NoReply == Reply("none")

Replied(uid, text, r) == last' = [uid |-> uid, text |-> text, fault |-> FALSE, reply |-> r]

Faulted(uid, text) == last' = [uid |-> uid, text |-> text, fault |-> TRUE, reply |-> NoReply]

(***************************************************************************)
(* line_bot/app.py: format_plan.                                           *)
(***************************************************************************)
\* int(v) and float(v) of a profile value
TruncDiv(n, d) == IF n >= 0 THEN n \div d ELSE 0 - ((0 - n) \div d)

IntRaises(v) ==
    ~(v.t \in {"int", "float"} \/ (v.t = "str" /\ v.s \in DOMAIN IntLiterals))

IntValue(v) ==
    IF v.t = "int" THEN v.n
    ELSE IF v.t = "float" THEN TruncDiv(v.n, 1000)
    ELSE IntLiterals[v.s]

FloatRaises(v) ==
    ~(v.t \in {"int", "float"} \/ (v.t = "str" /\ v.s \in DOMAIN FloatLiterals))

FloatValue(v) ==
    IF v.t = "float" THEN v.n
    ELSE IF v.t = "int" THEN 1000 * v.n
    ELSE FloatLiterals[v.s]

\* mutant of Given: None is not among the values tested for
GivenUnlessSkip(v) == ~(v.t = "str" /\ v.s \in {"", "skip"})

\* v not in (None, "", "skip"), for v = profile.get(key)
Given(v) == ~(v.t \in {"absent", "none"} \/ (v.t = "str" /\ v.s \in {"", "skip"}))

\* format_plan raises: a conversion or build_plan does
FormatPlanRaises(profile) ==
    \/ IntRaises(profile["age"])
    \/ FloatRaises(profile["height_cm"])
    \/ FloatRaises(profile["weight_kg"])
    \/ Given(profile["goal_weight"]) /\ FloatRaises(profile["goal_weight"])
    \/ Given(profile["deadline_days"]) /\ IntRaises(profile["deadline_days"])
    \/ BuildPlanRaises(profile["sex"].s, profile["activity"].s)

\* the plan whose fields format_plan prints
format_plan(profile) ==
    build_plan(profile["sex"].s, IntValue(profile["age"]),
               FloatValue(profile["height_cm"]), FloatValue(profile["weight_kg"]),
               profile["activity"].s, profile["mode"].s,
               IF Given(profile["goal_weight"])
               THEN PyFloat(FloatValue(profile["goal_weight"])) ELSE PyNone,
               IF Given(profile["deadline_days"])
               THEN PyInt(IntValue(profile["deadline_days"])) ELSE PyNone)

\* validate_profile and format_plan both return
PlanOk(profile) == ~ValidateRaises(profile) /\ ~FormatPlanRaises(profile)

(***************************************************************************)
(* line_bot/app.py: callback, one action for each branch of its loop body. *)
(* Each loads the session of uid, and saves it where the code does.        *)
(***************************************************************************)
Help(uid, text) ==
    /\ Dispatch(text, load_state(uid)) = "help"
    /\ Replied(uid, text, Reply("help"))
    /\ UNCHANGED <<store, planArgs, planRes, trendArgs, trendRes, flight>>

\* mutant of Reset: the history survives the reset
ResetKeepsHistory(uid, text) ==
    /\ Dispatch(text, load_state(uid)) = "reset"
    /\ save_state(uid, [DefaultState EXCEPT !.history = load_state(uid).history])
    /\ Replied(uid, text, Reply("reset"))
    /\ UNCHANGED <<planArgs, planRes, trendArgs, trendRes, flight>>

Reset(uid, text) ==
    /\ Dispatch(text, load_state(uid)) = "reset"
    /\ save_state(uid, DefaultState)
    /\ Replied(uid, text, Reply("reset"))
    /\ UNCHANGED <<planArgs, planRes, trendArgs, trendRes, flight>>

Start(uid, text) ==
    LET state == [load_state(uid) EXCEPT !.stage = "onboarding", !.onboard_idx = 0]
    IN  /\ Dispatch(text, load_state(uid)) = "start"
        /\ save_state(uid, state)
        /\ Replied(uid, text,
                   [Reply("start") EXCEPT
                       !.key = ONBOARD_KEYS[state.onboard_idx + 1],
                       !.pb = progress_bar(0, Len(ONBOARD_KEYS))])
        /\ UNCHANGED <<planArgs, planRes, trendArgs, trendRes, flight>>

\* the reply of the plan command: the formatted plan, or the notice that the
\* profile is incomplete for whatever validate_profile or format_plan raised
PlanReply(profile) ==
    IF PlanOk(profile)
    THEN [Reply("plan") EXCEPT !.plan = format_plan(profile)]
    ELSE Reply("incomplete")

Plan(uid, text) ==
    /\ Dispatch(text, load_state(uid)) = "plan"
    /\ Replied(uid, text, PlanReply(load_state(uid).profile))
    /\ UNCHANGED <<store, planArgs, planRes, trendArgs, trendRes, flight>>

\* profile.get("mode", default) as the str it is, "" when it is None
ModeOf(profile, default) ==
    IF profile["mode"].t = "absent" THEN default ELSE profile["mode"].s

\* mutant of Appended: the weight is stored as typed
AppendedUnrounded(history, now, w) == Append(history, [date |-> now, weight |-> w])

\* the history with the entry of a log command appended
Appended(history, now, w) == Append(history, [date |-> now, weight |-> Round2(w)])

Log(uid, text, now) ==
    LET state == load_state(uid)
        arg == <<Lower(text)[2]>>
        logged == [state EXCEPT !.history = Appended(state.history, now, FloatOf(arg))]
    IN  /\ Dispatch(text, state) = "log"
        /\ IF FloatParses(arg)
           THEN /\ Len(state.history) < MaxHist
                /\ \A i \in 1..Len(state.history) : state.history[i].date <= now
                /\ save_state(uid, logged)
                /\ Replied(uid, text,
                           [Reply("logged") EXCEPT
                               !.value = PyFloat(FloatOf(arg)),
                               !.sugg = suggest_after_log(logged.history,
                                            ModeOf(state.profile, "recomp"), 7)])
           ELSE /\ now = 0    \* the clock is not read
                /\ Replied(uid, text, Reply("log failed"))
                /\ UNCHANGED store
        /\ UNCHANGED <<planArgs, planRes, trendArgs, trendRes, flight>>

History(uid, text) ==
    LET hist == load_state(uid).history
    IN  /\ Dispatch(text, load_state(uid)) = "history"
        /\ IF hist = <<>>
           THEN Replied(uid, text, Reply("no history"))
           ELSE Replied(uid, text,
                        [Reply("history") EXCEPT
                            !.s7 = summarise_history(hist, 7),
                            !.s30 = summarise_history(hist, 30)])
        /\ UNCHANGED <<store, planArgs, planRes, trendArgs, trendRes, flight>>

guide_text(mode) ==
    LET m == LowerTok(IF mode = "" THEN "recomp" ELSE mode)
    IN  IF m = "cut" THEN "cut" ELSE IF m = "bulk" THEN "bulk" ELSE "recomp"

Guide(uid, text) ==
    LET profile == load_state(uid).profile
    IN  /\ Dispatch(text, load_state(uid)) = "guide"
        /\ IF ModeOf(profile, "") = ""
           THEN Replied(uid, text, Reply("guide needs profile"))
           ELSE Replied(uid, text,
                        [Reply("guide") EXCEPT !.key = guide_text(ModeOf(profile, ""))])
        /\ UNCHANGED <<store, planArgs, planRes, trendArgs, trendRes, flight>>

ProfileShow(uid, text) ==
    /\ Dispatch(text, load_state(uid)) = "profile show"
    /\ Replied(uid, text, Reply("profile show"))
    /\ UNCHANGED <<store, planArgs, planRes, trendArgs, trendRes, flight>>

\* profile set: the coercion of the value raises
CoerceRaises(key, value) ==
    \/ key \in {"age"} /\ ~IntParses(<<value>>)
    \/ key \in {"height_cm", "weight_kg", "goal_weight"} /\ ~FloatParses(<<value>>)

Coerce(key, value) ==
    IF key \in {"age"} THEN PyInt(IntOf(<<value>>))
    ELSE IF key \in {"height_cm", "weight_kg", "goal_weight"}
    THEN PyFloat(FloatOf(<<value>>))
    ELSE PyStr(value)

\* mutant of ProfileSet: a value that fails the coercion is stored as the string
\* it is
ProfileSetStoresRaw(uid, text) ==
    LET state == load_state(uid)
        parts == text
    IN  /\ Dispatch(text, state) = "profile set"
        /\ IF Len(parts) < 4
           THEN /\ Replied(uid, text, Reply("usage"))
                /\ UNCHANGED store
           ELSE LET value == IF CoerceRaises(parts[3], parts[4])
                             THEN PyStr(parts[4]) ELSE Coerce(parts[3], parts[4])
                IN  /\ save_state(uid, [state EXCEPT !.profile[parts[3]] = value])
                    /\ Replied(uid, text,
                               [Reply("updated") EXCEPT !.key = parts[3], !.value = value])
        /\ UNCHANGED <<planArgs, planRes, trendArgs, trendRes, flight>>

ProfileSet(uid, text) ==
    LET state == load_state(uid)
        parts == text
    IN  /\ Dispatch(text, state) = "profile set"
        /\ IF Len(parts) < 4 \/ CoerceRaises(parts[3], parts[4])
           THEN /\ Replied(uid, text, Reply("usage"))
                /\ UNCHANGED store
           ELSE /\ save_state(uid,
                      [state EXCEPT !.profile[parts[3]] = Coerce(parts[3], parts[4])])
                /\ Replied(uid, text,
                           [Reply("updated") EXCEPT
                               !.key = parts[3],
                               !.value = Coerce(parts[3], parts[4])])
        /\ UNCHANGED <<planArgs, planRes, trendArgs, trendRes, flight>>

\* mutant of ChoiceLower: any one-word answer passes
ChoiceLowerUnchecked(val, choices) == Len(val) = 1

\* val.lower() in choices, resp. val in choices
ChoiceLower(val, choices) == Len(val) = 1 /\ LowerTok(val[1]) \in choices

Choice(val, choices) == Len(val) = 1 /\ val[1] \in choices

\* the onboarding answer val to the question key: "reprompt" when the code
\* replies and continues, "raise" when int() or float() raises, else "store"
AnswerOutcome(key, val) ==
    IF key = "sex" THEN
        IF ChoiceLower(val, {"male", "female"}) THEN "store" ELSE "reprompt"
    ELSE IF key = "age" THEN
        IF IntParses(val) THEN "store" ELSE "raise"
    ELSE IF key \in {"height_cm", "weight_kg"} THEN
        IF FloatParses(val) THEN "store" ELSE "raise"
    ELSE IF key = "activity" THEN
        IF Choice(val, DOMAIN factors) THEN "store" ELSE "reprompt"
    ELSE IF key = "mode" THEN
        IF ChoiceLower(val, {"cut", "recomp", "bulk"}) THEN "store" ELSE "reprompt"
    ELSE IF key = "goal_weight" THEN
        IF ChoiceLower(val, {"skip"}) \/ FloatParses(val) THEN "store" ELSE "raise"
    ELSE
        IF ChoiceLower(val, {"skip"}) \/ IntParses(val) THEN "store" ELSE "raise"

\* the value a stored answer puts in the profile
AnswerValue(key, val) ==
    IF key \in {"sex", "mode"} THEN PyStr(LowerTok(val[1]))
    ELSE IF key = "activity" THEN PyStr(val[1])
    ELSE IF key = "age" THEN PyInt(IntOf(val))
    ELSE IF key \in {"height_cm", "weight_kg"} THEN PyFloat(FloatOf(val))
    ELSE IF ChoiceLower(val, {"skip"}) THEN PyNone
    ELSE IF key = "goal_weight" THEN PyFloat(FloatOf(val))
    ELSE PyInt(IntOf(val))

\* the reply that ends onboarding
FinishedReply(profile, done) ==
    IF PlanOk(profile)
    THEN [Reply("finished") EXCEPT
             !.pb = progress_bar(done, Len(ONBOARD_KEYS)),
             !.plan = format_plan(profile)]
    ELSE Reply("finished incomplete")

\* mutant of Onboarding: the stage is left as it is after the last answer
OnboardingStaysOn(uid, text) ==
    LET state == load_state(uid)
        idx == state.onboard_idx
        key == ONBOARD_KEYS[idx + 1]
        outcome == AnswerOutcome(key, text)
        next == [state EXCEPT !.profile[key] = AnswerValue(key, text),
                              !.onboard_idx = idx + 1]
        done == Min(idx + 1, Len(ONBOARD_KEYS))
    IN  /\ Dispatch(text, state) = "onboarding"
        /\ IF idx >= Len(ONBOARD_KEYS) \/ outcome = "raise"
           THEN /\ Faulted(uid, text)
                /\ UNCHANGED store
           ELSE IF outcome = "reprompt"
           THEN /\ Replied(uid, text, [Reply("reprompt") EXCEPT !.key = key])
                /\ UNCHANGED store
           ELSE IF idx + 1 >= Len(ONBOARD_KEYS)
           THEN /\ save_state(uid, next)
                /\ Replied(uid, text, FinishedReply(next.profile, done))
           ELSE /\ save_state(uid, next)
                /\ Replied(uid, text,
                           [Reply("question") EXCEPT
                               !.key = ONBOARD_KEYS[idx + 2],
                               !.pb = progress_bar(done, Len(ONBOARD_KEYS))])
        /\ UNCHANGED <<planArgs, planRes, trendArgs, trendRes, flight>>

Onboarding(uid, text) ==
    LET state == load_state(uid)
        idx == state.onboard_idx
        key == ONBOARD_KEYS[idx + 1]
        outcome == AnswerOutcome(key, text)
        next == [state EXCEPT !.profile[key] = AnswerValue(key, text),
                              !.onboard_idx = idx + 1]
        done == Min(idx + 1, Len(ONBOARD_KEYS))
    IN  /\ Dispatch(text, state) = "onboarding"
        /\ IF idx >= Len(ONBOARD_KEYS) \/ outcome = "raise"
           THEN /\ Faulted(uid, text)
                /\ UNCHANGED store
           ELSE IF outcome = "reprompt"
           THEN /\ Replied(uid, text, [Reply("reprompt") EXCEPT !.key = key])
                /\ UNCHANGED store
           ELSE IF idx + 1 >= Len(ONBOARD_KEYS)
           THEN /\ save_state(uid, [next EXCEPT !.stage = "idle"])
                /\ Replied(uid, text, FinishedReply(next.profile, done))
           ELSE /\ save_state(uid, next)
                /\ Replied(uid, text,
                           [Reply("question") EXCEPT
                               !.key = ONBOARD_KEYS[idx + 2],
                               !.pb = progress_bar(done, Len(ONBOARD_KEYS))])
        /\ UNCHANGED <<planArgs, planRes, trendArgs, trendRes, flight>>

Fallback(uid, text) ==
    /\ Dispatch(text, load_state(uid)) = "fallback"
    /\ Replied(uid, text, Reply("not found"))
    /\ UNCHANGED <<store, planArgs, planRes, trendArgs, trendRes, flight>>

(***************************************************************************)
(* line_bot/app.py: the loop body of callback as a function of the session *)
(* it loaded, the text and the clock: whether an exception leaves          *)
(* callback, the reply, whether save_state is called and the session it is *)
(* called with.                                                            *)
(***************************************************************************)
Out(fault, r, saved, state) ==
    [fault |-> fault, reply |-> r, saved |-> saved, state |-> state]

OutLog(state, text, now) ==
    LET arg == <<Lower(text)[2]>>
        logged == [state EXCEPT !.history = Appended(state.history, now, FloatOf(arg))]
    IN  IF FloatParses(arg)
        THEN Out(FALSE,
                 [Reply("logged") EXCEPT
                     !.value = PyFloat(FloatOf(arg)),
                     !.sugg = suggest_after_log(logged.history,
                                  ModeOf(state.profile, "recomp"), 7)],
                 TRUE, logged)
        ELSE Out(FALSE, Reply("log failed"), FALSE, state)

OutHistory(state) ==
    IF state.history = <<>>
    THEN Out(FALSE, Reply("no history"), FALSE, state)
    ELSE Out(FALSE,
             [Reply("history") EXCEPT
                 !.s7 = summarise_history(state.history, 7),
                 !.s30 = summarise_history(state.history, 30)],
             FALSE, state)

OutGuide(state) ==
    IF ModeOf(state.profile, "") = ""
    THEN Out(FALSE, Reply("guide needs profile"), FALSE, state)
    ELSE Out(FALSE, [Reply("guide") EXCEPT !.key = guide_text(ModeOf(state.profile, ""))],
             FALSE, state)

OutProfileSet(state, text) ==
    IF Len(text) < 4 \/ CoerceRaises(text[3], text[4])
    THEN Out(FALSE, Reply("usage"), FALSE, state)
    ELSE Out(FALSE,
             [Reply("updated") EXCEPT !.key = text[3], !.value = Coerce(text[3], text[4])],
             TRUE, [state EXCEPT !.profile[text[3]] = Coerce(text[3], text[4])])

OutOnboarding(state, text) ==
    LET idx == state.onboard_idx
        key == ONBOARD_KEYS[idx + 1]
        outcome == AnswerOutcome(key, text)
        next == [state EXCEPT !.profile[key] = AnswerValue(key, text),
                              !.onboard_idx = idx + 1]
        done == Min(idx + 1, Len(ONBOARD_KEYS))
    IN  IF idx >= Len(ONBOARD_KEYS) \/ outcome = "raise"
        THEN Out(TRUE, NoReply, FALSE, state)
        ELSE IF outcome = "reprompt"
        THEN Out(FALSE, [Reply("reprompt") EXCEPT !.key = key], FALSE, state)
        ELSE IF idx + 1 >= Len(ONBOARD_KEYS)
        THEN Out(FALSE, FinishedReply(next.profile, done), TRUE,
                 [next EXCEPT !.stage = "idle"])
        ELSE Out(FALSE,
                 [Reply("question") EXCEPT
                     !.key = ONBOARD_KEYS[idx + 2],
                     !.pb = progress_bar(done, Len(ONBOARD_KEYS))],
                 TRUE, next)

Outcome(state, text, now) ==
    LET cmd == Dispatch(text, state)
    IN  IF cmd = "help" THEN Out(FALSE, Reply("help"), FALSE, state)
        ELSE IF cmd = "reset" THEN Out(FALSE, Reply("reset"), TRUE, DefaultState)
        ELSE IF cmd = "start"
        THEN Out(FALSE,
                 [Reply("start") EXCEPT
                     !.key = ONBOARD_KEYS[1],
                     !.pb = progress_bar(0, Len(ONBOARD_KEYS))],
                 TRUE, [state EXCEPT !.stage = "onboarding", !.onboard_idx = 0])
        ELSE IF cmd = "plan" THEN Out(FALSE, PlanReply(state.profile), FALSE, state)
        ELSE IF cmd = "log" THEN OutLog(state, text, now)
        ELSE IF cmd = "history" THEN OutHistory(state)
        ELSE IF cmd = "guide" THEN OutGuide(state)
        ELSE IF cmd = "profile show" THEN Out(FALSE, Reply("profile show"), FALSE, state)
        ELSE IF cmd = "profile set" THEN OutProfileSet(state, text)
        ELSE IF cmd = "onboarding" THEN OutOnboarding(state, text)
        ELSE Out(FALSE, Reply("not found"), FALSE, state)

(***************************************************************************)
(* The conversation of one user with the bot.                              *)
(***************************************************************************)
Users == {"u1"}

\* the server's workers, each of which runs callback on the events it is sent
Workers == {"w1", "w2"}

\* the step of a worker: busy between its load_state and the end of the loop
\* body, with the session it loaded; sole as long as no other step for the same
\* user was in flight with it; kind is the reply it ended with
NoStep ==
    [busy |-> FALSE, sole |-> TRUE, uid |-> "", text |-> <<>>, state |-> DefaultState,
     kind |-> "none"]

NoFlight == [w \in Workers |-> NoStep]

\* no trend function was applied
NoTrendArgs == [history |-> <<>>, mode |-> ""]

NoTrend ==
    [done |-> FALSE, sugg |-> "", s0 |-> EmptySummary, s7 |-> EmptySummary,
     s30 |-> EmptySummary]

NoArgs ==
    [sex |-> "", age |-> 0, height_cm |-> 0, weight_kg |-> 0, activity |-> "",
     mode |-> "", goal_weight |-> PyNone, deadline_days |-> PyNone]

Init ==
    /\ store = [u \in Users |-> NoFile]
    /\ last = [uid |-> "", text |-> <<>>, fault |-> FALSE, reply |-> NoReply]
    /\ planArgs = NoArgs
    /\ planRes = NoPlan
    /\ trendArgs = NoTrendArgs
    /\ trendRes = NoTrend
    /\ flight = NoFlight

Next ==
    \E uid \in DOMAIN store, text \in Messages :
        \/ Help(uid, text)
        \/ Reset(uid, text)
        \/ Start(uid, text)
        \/ Plan(uid, text)
        \/ \E now \in 0..MaxTime : Log(uid, text, now)
        \/ History(uid, text)
        \/ Guide(uid, text)
        \/ ProfileShow(uid, text)
        \/ ProfileSet(uid, text)
        \/ Onboarding(uid, text)
        \/ Fallback(uid, text)

Spec == Init /\ [][Next]_vars

(***************************************************************************)
(* build_plan applied to drawn arguments.                                  *)
(***************************************************************************)
PlanInputs ==
    [sex : {"male", "female"},
     age : {25, 60},
     height_cm : {150000, 185000},
     weight_kg : {45000, 60000, 120000},
     activity : {"sedentary", "very_active"},
     mode : {"cut", "recomp", "bulk", "keto", ""},
     goal_weight : {PyNone} \cup {PyFloat(g) : g \in {40000, 60000, 60100, 75000, 6557013}},
     deadline_days : {PyNone} \cup {PyInt(d) : d \in {-7, 0, 1, 30, 90, 100054}}]

InitPlan ==
    /\ store = [u \in Users |-> NoFile]
    /\ last = [uid |-> "", text |-> <<>>, fault |-> FALSE, reply |-> NoReply]
    /\ planArgs \in PlanInputs
    /\ planRes = NoPlan
    /\ trendArgs = NoTrendArgs
    /\ trendRes = NoTrend
    /\ flight = NoFlight

BuildPlan ==
    /\ planRes = NoPlan
    /\ ~BuildPlanRaises(planArgs.sex, planArgs.activity)
    /\ planRes' = build_plan(planArgs.sex, planArgs.age, planArgs.height_cm,
                             planArgs.weight_kg, planArgs.activity, planArgs.mode,
                             planArgs.goal_weight, planArgs.deadline_days)
    /\ UNCHANGED <<store, last, planArgs, trendArgs, trendRes, flight>>

NextPlan == BuildPlan

SpecPlan == InitPlan /\ [][NextPlan]_vars

(***************************************************************************)
(* The onboarding script: start, then only answers that are valid for the  *)
(* question asked.                                                         *)
(***************************************************************************)
OnboardTexts ==
    { <<"Male">>, <<"female">>, <<"25">>, <<"60">>, <<"65.2">>, <<"active">>,
      <<"light">>, <<"cut">>, <<"bulk">>, <<"skip">> }

\* text is a value of the declared domain of the profile field key
ValidAnswer(key, text) ==
    /\ Len(text) = 1
    /\ IF key = "sex" THEN LowerTok(text[1]) \in {"male", "female"}
       ELSE IF key = "age" THEN text[1] \in DOMAIN IntLiterals /\ IntLiterals[text[1]] > 0
       ELSE IF key \in {"height_cm", "weight_kg"}
       THEN text[1] \in DOMAIN FloatLiterals /\ FloatLiterals[text[1]] > 0
       ELSE IF key = "activity"
       THEN text[1] \in {"sedentary", "light", "moderate", "active", "very_active"}
       ELSE IF key = "mode" THEN LowerTok(text[1]) \in {"cut", "recomp", "bulk"}
       ELSE IF key = "goal_weight"
       THEN LowerTok(text[1]) = "skip" \/ text[1] \in DOMAIN FloatLiterals
       ELSE LowerTok(text[1]) = "skip"
                \/ (text[1] \in DOMAIN IntLiterals /\ IntLiterals[text[1]] > 0)

\* the question a session in onboarding is at
AskedKey(state) == ONBOARD_KEYS[Min(state.onboard_idx, Len(ONBOARD_KEYS) - 1) + 1]

NextOnboard ==
    \E uid \in DOMAIN store :
        \/ last.uid = "" /\ Start(uid, <<"START">>)
        \/ \E text \in OnboardTexts :
              /\ ValidAnswer(AskedKey(load_state(uid)), text)
              /\ Onboarding(uid, text)

SpecOnboard == Init /\ [][NextOnboard]_vars

(***************************************************************************)
(* Two users talk to the bot, each with a session file of their own.       *)
(***************************************************************************)
TwoUsers == {"u1", "u2"}

TwoTexts ==
    { <<"reset">>, <<"START">>, <<"plan">>, <<"history">>, <<"log", "64.038">>, <<"Male">> }

InitTwo ==
    /\ store = [u \in TwoUsers |-> NoFile]
    /\ last = [uid |-> "", text |-> <<>>, fault |-> FALSE, reply |-> NoReply]
    /\ planArgs = NoArgs
    /\ planRes = NoPlan
    /\ trendArgs = NoTrendArgs
    /\ trendRes = NoTrend
    /\ flight = NoFlight

NextTwo ==
    \E uid \in DOMAIN store, text \in TwoTexts :
        \/ Reset(uid, text)
        \/ Start(uid, text)
        \/ Plan(uid, text)
        \/ Log(uid, text, 0)
        \/ History(uid, text)
        \/ Onboarding(uid, text)

SpecTwo == InitTwo /\ [][NextTwo]_vars

(***************************************************************************)
(* Steps in flight.  The loop body loads the session, works on the dict it *)
(* loaded and saves it, and takes no lock: a step is a Begin (load_state)  *)
(* and a Finish (the rest of the loop body, save_state's write_text taken  *)
(* as one write), and the steps of two workers interleave.                 *)
(***************************************************************************)
FlightTexts ==
    { <<"log", "64.038">>, <<"profile", "set", "sex", "other">>, <<"reset">> }

\* another worker is between load and save for user uid
OthersInFlight(w, uid) ==
    \E v \in Workers \ {w} : flight[v].busy /\ flight[v].uid = uid

Begin(w, uid, text) ==
    /\ ~flight[w].busy
    /\ Dispatch(text, load_state(uid)) = "log" => Len(load_state(uid).history) < MaxHist
    /\ flight' = [v \in Workers |->
                     IF v = w
                     THEN [busy |-> TRUE, sole |-> ~OthersInFlight(w, uid), uid |-> uid,
                           text |-> text, state |-> load_state(uid), kind |-> "none"]
                     ELSE IF flight[v].busy /\ flight[v].uid = uid
                     THEN [flight[v] EXCEPT !.sole = FALSE]
                     ELSE flight[v]]
    /\ UNCHANGED <<store, last, planArgs, planRes, trendArgs, trendRes>>

\* mutant of Finish: the session is loaded again before the work on it
FinishReloads(w, now) ==
    LET step == flight[w]
        out == Outcome(load_state(step.uid), step.text, now)
    IN  /\ step.busy
        /\ \A i \in 1..Len(load_state(step.uid).history) :
              load_state(step.uid).history[i].date <= now
        /\ Len(load_state(step.uid).history) < MaxHist
        /\ last' = [uid |-> step.uid, text |-> step.text, fault |-> out.fault,
                    reply |-> out.reply]
        /\ IF out.saved THEN save_state(step.uid, out.state) ELSE UNCHANGED store
        /\ flight' = [flight EXCEPT ![w] = [step EXCEPT !.busy = FALSE,
                                                        !.state = DefaultState,
                                                        !.kind = out.reply.kind]]
        /\ UNCHANGED <<planArgs, planRes, trendArgs, trendRes>>

Finish(w, now) ==
    LET step == flight[w]
        out == Outcome(step.state, step.text, now)
    IN  /\ step.busy
        /\ \A i \in 1..Len(step.state.history) : step.state.history[i].date <= now
        /\ \A i \in 1..Len(load_state(step.uid).history) :
              load_state(step.uid).history[i].date <= now
        /\ last' = [uid |-> step.uid, text |-> step.text, fault |-> out.fault,
                    reply |-> out.reply]
        /\ IF out.saved THEN save_state(step.uid, out.state) ELSE UNCHANGED store
        /\ flight' = [flight EXCEPT ![w] = [step EXCEPT !.busy = FALSE,
                                                        !.state = DefaultState,
                                                        !.kind = out.reply.kind]]
        /\ UNCHANGED <<planArgs, planRes, trendArgs, trendRes>>

NextFlight ==
    \E w \in Workers :
        \/ \E uid \in DOMAIN store, text \in FlightTexts : Begin(w, uid, text)
        \/ \E now \in 0..MaxTime : Finish(w, now)

SpecFlight == Init /\ [][NextFlight]_vars

(***************************************************************************)
(* suggest_after_log applied to drawn histories and modes.  A history is   *)
(* empty, a single entry, or a first and a last entry with fill entries    *)
(* between them that weigh a kilogram more than the first.                 *)
(***************************************************************************)
\* most entries between the first and the last one
MaxFill == 6

\* the default of the parameter recent_window
RecentWindow == 7

TrendModes == {"cut", "bulk", "recomp", "keto", ""}

SuggestEntries == [date : {0, 1, 2, 4},
                   weight : {79000, 79850, 80000, 80040, 80050, 80100, 80250, 80600}]

Padded(first, lastE, fill) ==
    <<first>>
        \o [i \in 1..fill |-> [date |-> Max(first.date, lastE.date - HalfDaysPerDay),
                               weight |-> first.weight + 1000]]
        \o <<lastE>>

SuggestHistories ==
    {<<>>} \cup {<<e>> : e \in SuggestEntries}
        \cup {Padded(p[1], p[2], k) :
                  p \in {q \in SuggestEntries \X SuggestEntries : q[1].date <= q[2].date},
                  k \in 0..MaxFill}

InitSuggest ==
    /\ store = [u \in Users |-> NoFile]
    /\ last = [uid |-> "", text |-> <<>>, fault |-> FALSE, reply |-> NoReply]
    /\ planArgs = NoArgs
    /\ planRes = NoPlan
    /\ trendArgs \in [history : SuggestHistories, mode : TrendModes]
    /\ trendRes = NoTrend
    /\ flight = NoFlight

Suggest ==
    /\ ~trendRes.done
    /\ trendRes' = [NoTrend EXCEPT !.done = TRUE,
                                   !.sugg = suggest_after_log(trendArgs.history,
                                                              trendArgs.mode, RecentWindow)]
    /\ UNCHANGED <<store, last, planArgs, planRes, trendArgs, flight>>

NextSuggest == Suggest

SpecSuggest == InitSuggest /\ [][NextSuggest]_vars

(***************************************************************************)
(* summarise_history applied to drawn histories, for windows of 0, 7 and   *)
(* 30 days.                                                                *)
(***************************************************************************)
\* longest history summarised
MaxSumLen == 3

SummaryEntries == [date : {0, 1, 46, 47, 61, 62}, weight : {79600, 79700, 80000, 80400}]

\* the histories of the data model: in insertion order, timestamps not decreasing
SummaryHistories ==
    {h \in UNION {[1..n -> SummaryEntries] : n \in 0..MaxSumLen} :
        \A i \in 1..(Len(h) - 1) : h[i].date <= h[i + 1].date}

InitSummary ==
    /\ store = [u \in Users |-> NoFile]
    /\ last = [uid |-> "", text |-> <<>>, fault |-> FALSE, reply |-> NoReply]
    /\ planArgs = NoArgs
    /\ planRes = NoPlan
    /\ trendArgs \in [history : SummaryHistories, mode : {""}]
    /\ trendRes = NoTrend
    /\ flight = NoFlight

Summarise ==
    /\ ~trendRes.done
    /\ trendRes' = [NoTrend EXCEPT !.done = TRUE,
                                   !.s0 = summarise_history(trendArgs.history, 0),
                                   !.s7 = summarise_history(trendArgs.history, 7),
                                   !.s30 = summarise_history(trendArgs.history, 30)]
    /\ UNCHANGED <<store, last, planArgs, planRes, trendArgs, flight>>

NextSummary == Summarise

SpecSummary == InitSummary /\ [][NextSummary]_vars

(***************************************************************************)
(* Properties.  For a step of user u, last' holds the text processed and   *)
(* the reply, LoadFile(store[u]) is the persisted session before the step  *)
(* and LoadFile(store'[u]) the one after it.                               *)
(***************************************************************************)
Session(u) == LoadFile(store[u])

\* the default session of the data model
FreshSession ==
    [profile |-> [k \in ProfileKeys |-> Absent], history |-> <<>>, stage |-> "idle",
     onboard_idx |-> 0]

\* the command of the command surface a text is, "" for none: help | reset |
\* start | plan | log <float> | history | guide | profile show |
\* profile set <key> <value>, keywords case-insensitive
CommandOf(text) ==
    LET low == Lower(text)
    IN  IF Len(low) = 1 /\ low[1] \in {"help", "reset", "start", "plan", "history", "guide"}
        THEN low[1]
        ELSE IF Len(low) = 2 /\ low[1] = "log" /\ low[2] \in DOMAIN FloatLiterals
        THEN "log"
        ELSE IF Len(low) = 2 /\ low[1] = "profile" /\ low[2] = "show"
        THEN "profile show"
        ELSE IF Len(low) = 4 /\ low[1] = "profile" /\ low[2] = "set"
        THEN "profile set"
        ELSE ""

\* a log command whose argument is no number, or a profile set command with no
\* value or with a value that is no number for a numeric key
Malformed(text) ==
    LET low == Lower(text)
    IN  IF Len(low) = 2 /\ low[1] = "log" THEN low[2] \notin DOMAIN FloatLiterals
        ELSE IF Len(low) = 3 /\ low[1] = "profile" /\ low[2] = "set" THEN TRUE
        ELSE IF Len(low) = 4 /\ low[1] = "profile" /\ low[2] = "set"
        THEN \/ text[3] = "age" /\ text[4] \notin DOMAIN IntLiterals
             \/ text[3] \in {"height_cm", "weight_kg", "goal_weight"}
                    /\ text[4] \notin DOMAIN FloatLiterals
        ELSE FALSE

\* an onboarding answer that fails the validation or the parse of the field key
FailsField(key, text) ==
    IF key = "sex" THEN ~(Len(text) = 1 /\ LowerTok(text[1]) \in {"male", "female"})
    ELSE IF key = "activity"
    THEN ~(Len(text) = 1
            /\ text[1] \in {"sedentary", "light", "moderate", "active", "very_active"})
    ELSE IF key = "mode"
    THEN ~(Len(text) = 1 /\ LowerTok(text[1]) \in {"cut", "recomp", "bulk"})
    ELSE IF key = "age" THEN ~(Len(text) = 1 /\ text[1] \in DOMAIN IntLiterals)
    ELSE IF key \in {"height_cm", "weight_kg"}
    THEN ~(Len(text) = 1 /\ text[1] \in DOMAIN FloatLiterals)
    ELSE IF key = "goal_weight"
    THEN ~(Len(text) = 1
            /\ (LowerTok(text[1]) = "skip" \/ text[1] \in DOMAIN FloatLiterals))
    ELSE ~(Len(text) = 1
            /\ (LowerTok(text[1]) = "skip" \/ text[1] \in DOMAIN IntLiterals))

\* all of sex, age, height_cm, weight_kg, activity, mode are present
Complete(profile) ==
    \A k \in {"sex", "age", "height_cm", "weight_kg", "activity", "mode"} :
        profile[k].t # "absent"

\* C1: every message-processing step ends by producing a reply to the user and
\* never in an unhandled fault; an onboarding answer that does not parse as the
\* number asked for is answered with a re-prompt.
C1_EveryStepReplies ==
    last.uid # "" => (~last.fault /\ last.reply.kind # "none")

\* C2: in stage onboarding, an answer that fails the validation or the parse of
\* the field asked for leaves the persisted session (onboard_idx, stage, profile,
\* history) as it was, and an invalid enum answer is answered with a re-prompt
\* for the same field.
C2_FailedAnswerKeepsSession ==
    [][\A u \in DOMAIN store :
          LET before == LoadFile(store[u])
              key == AskedKey(before)
          IN  (/\ last'.uid = u
               /\ before.stage = "onboarding"
               /\ CommandOf(last'.text) = ""
               /\ ~Malformed(last'.text)
               /\ FailsField(key, last'.text))
              => /\ LoadFile(store'[u]) = before
                 /\ key \in {"sex", "activity", "mode"}
                      => /\ ~last'.fault
                         /\ last'.reply.kind = "reprompt"
                         /\ last'.reply.key = key]_vars

C2_Witness ==
    /\ last.reply.kind = "reprompt"
    /\ last.reply.key = "mode"
    /\ Session(last.uid).stage = "onboarding"
    /\ Session(last.uid).onboard_idx = 5

\* C3: from the default session, start followed by eight valid answers in the
\* order of the questions: start enters onboarding at index 0, each answer
\* raises onboard_idx by exactly 1 without a fault, and the eighth leaves
\* stage = idle, onboard_idx = 8 and a reply that holds a plan.
C3_ScriptReachesPlan ==
    [][\A u \in DOMAIN store :
          LET before == LoadFile(store[u])
              after == LoadFile(store'[u])
          IN  last'.uid = u =>
                IF Lower(last'.text) = <<"start">>
                THEN after.stage = "onboarding" /\ after.onboard_idx = 0
                ELSE ValidAnswer(AskedKey(before), last'.text)
                     => /\ ~last'.fault
                        /\ after.onboard_idx = before.onboard_idx + 1
                        /\ IF after.onboard_idx = 8
                           THEN /\ after.stage = "idle"
                                /\ last'.reply.kind = "finished"
                                /\ last'.reply.plan.target_kcal > 0
                           ELSE after.stage = "onboarding"]_vars

C3_Witness ==
    /\ last.reply.kind = "finished"
    /\ Session(last.uid).stage = "idle"
    /\ Session(last.uid).onboard_idx = 8
    /\ Session(last.uid).profile["goal_weight"] = PyNone
    /\ Session(last.uid).profile["deadline_days"] = PyInt(60)

\* the replies a command gives
RepliesOf(cmd) ==
    IF cmd = "plan" THEN {"plan", "incomplete"}
    ELSE IF cmd = "log" THEN {"logged"}
    ELSE IF cmd = "history" THEN {"history", "no history"}
    ELSE IF cmd = "guide" THEN {"guide", "guide needs profile"}
    ELSE IF cmd = "profile set" THEN {"updated", "usage"}
    ELSE {cmd}

\* C4: in any stage a text that is one of the commands help, plan, log <number>,
\* history, guide, profile show, profile set <key> <value> is answered as that
\* command and leaves the persisted stage and onboard_idx as they were; start
\* sets stage = onboarding and onboard_idx = 0 and leaves profile and history.
C4_CommandsKeepStage ==
    [][\A u \in DOMAIN store :
          LET before == LoadFile(store[u])
              after == LoadFile(store'[u])
              cmd == CommandOf(last'.text)
          IN  (last'.uid = u /\ cmd \notin {"", "reset"})
              => /\ ~last'.fault
                 /\ last'.reply.kind \in RepliesOf(cmd)
                 /\ IF cmd = "start"
                    THEN /\ after.stage = "onboarding"
                         /\ after.onboard_idx = 0
                         /\ after.profile = before.profile
                         /\ after.history = before.history
                    ELSE /\ after.stage = before.stage
                         /\ after.onboard_idx = before.onboard_idx]_vars

C4_Witness ==
    /\ last.reply.kind = "logged"
    /\ Session(last.uid).stage = "onboarding"
    /\ Session(last.uid).onboard_idx = 3

\* C5: reset leaves the persisted session equal to the default session, and
\* plan on a session whose profile is still empty returns the incompleteness
\* notice.
C5_ResetGivesFreshSession ==
    [][\A u \in DOMAIN store :
          last'.uid = u
          => /\ Lower(last'.text) = <<"reset">>
                  => /\ ~last'.fault
                     /\ last'.reply.kind = "reset"
                     /\ LoadFile(store'[u]) = FreshSession
             /\ (Lower(last'.text) = <<"plan">>
                    /\ LoadFile(store[u]).profile = FreshSession.profile)
                  => last'.reply.kind = "incomplete"]_vars

C5_Witness ==
    /\ Lower(last.text) = <<"reset">>
    /\ store[last.uid].exists
    /\ Session(last.uid) = FreshSession

\* C6: plan returns a formatted plan if the profile is complete and the
\* incompleteness notice if it is not, and leaves the session as it was.
C6_PlanIffComplete ==
    [][\A u \in DOMAIN store :
          (last'.uid = u /\ Lower(last'.text) = <<"plan">>)
          => /\ LoadFile(store'[u]) = LoadFile(store[u])
             /\ IF Complete(LoadFile(store[u]).profile)
                THEN last'.reply.kind = "plan"
                ELSE last'.reply.kind = "incomplete"]_vars

\* C7: a step other than reset leaves the persisted history as it was, except
\* log <number>, which appends exactly one entry with the weight
\* round(number, 2) at the end and replies with the suggest_after_log result on
\* the new history for the profile's mode, recomp when the mode is unset.
C7_HistoryAppendOnly ==
    [][\A u \in DOMAIN store :
          LET before == LoadFile(store[u])
              after == LoadFile(store'[u])
              n == Len(before.history)
              mode == IF before.profile["mode"].t = "absent"
                      THEN "recomp" ELSE before.profile["mode"].s
          IN  (last'.uid = u /\ Lower(last'.text) # <<"reset">>)
              => IF CommandOf(last'.text) = "log"
                 THEN /\ Len(after.history) = n + 1
                      /\ SubSeq(after.history, 1, n) = before.history
                      /\ after.history[n + 1].weight
                            = 10 * RoundHalfEven(FloatLiterals[Lower(last'.text)[2]], 10)
                      /\ last'.reply.kind = "logged"
                      /\ last'.reply.sugg = suggest_after_log(after.history, mode, 7)
                 ELSE after.history = before.history]_vars

C7_Witness ==
    /\ last.reply.kind = "logged"
    /\ Len(Session(last.uid).history) = 2
    /\ Session(last.uid).history[1].date < Session(last.uid).history[2].date
    /\ Session(last.uid).profile["mode"] = PyStr("cut")

\* C8: a log command whose argument is no number, and a profile set command
\* with a missing value or a value that fails the numeric coercion, are answered
\* with guidance, without a fault, and leave the persisted session as it was.
C8_MalformedKeepsSession ==
    [][\A u \in DOMAIN store :
          (last'.uid = u /\ Malformed(last'.text))
          => /\ ~last'.fault
             /\ last'.reply.kind \in {"log failed", "usage"}
             /\ LoadFile(store'[u]) = LoadFile(store[u])]_vars

C8_Witness ==
    /\ last.text = <<"profile", "set", "age", "abc">>
    /\ last.reply.kind = "usage"
    /\ Session(last.uid).profile["age"] = PyInt(60)

\* C9: every profile field that is present holds a value of its declared
\* domain: sex male or female, age a positive integer, height_cm and weight_kg
\* positive, activity one of the five levels, mode cut, recomp or bulk,
\* deadline_days absent or a positive integer.
C9_ProfileInDomain ==
    \A u \in DOMAIN store :
        LET p == Session(u).profile
        IN  /\ p["sex"] \in {Absent, PyStr("male"), PyStr("female")}
            /\ p["age"] = Absent \/ (p["age"].t = "int" /\ p["age"].n > 0)
            /\ \A k \in {"height_cm", "weight_kg"} :
                  p[k] = Absent \/ (p[k].t \in {"int", "float"} /\ p[k].n > 0)
            /\ p["activity"] \in {Absent} \cup
                  {PyStr(a) : a \in {"sedentary", "light", "moderate", "active", "very_active"}}
            /\ p["mode"] \in {Absent, PyStr("cut"), PyStr("recomp"), PyStr("bulk")}
            /\ \/ p["deadline_days"] \in {Absent, PyNone}
               \/ (p["deadline_days"].t = "int" /\ p["deadline_days"].n > 0)

\* C10: for every profile, every goal_weight and every deadline_days > 0 the
\* delta_kcal of the plan build_plan returns lies in [-750, 500], also when the
\* goal-derived delta is exactly 0 and the mode preset is used.
C10_DeltaWithinCap ==
    (planRes # NoPlan /\ planArgs.deadline_days.t = "int" /\ planArgs.deadline_days.n > 0)
    => (planRes.delta_kcal >= -750 /\ planRes.delta_kcal <= 500)

C10_Witness ==
    /\ planRes # NoPlan
    /\ planArgs.deadline_days = PyInt(30)
    /\ planArgs.goal_weight = PyFloat(planArgs.weight_kg)
    /\ planArgs.mode = "cut"
    /\ planRes.delta_kcal = -500

\* the raw daily delta (goal_weight - weight_kg) * 7700 / deadline_days of the
\* drawn arguments lies outside [-750, 500] by more than tol / (10 * days) kcal
RawOutside(tol) ==
    LET excess == (planArgs.goal_weight.n - planArgs.weight_kg) * 77
        days == planArgs.deadline_days.n
    IN  \/ excess - 5000 * days > tol
        \/ (0 - 7500) * days - excess > tol

BothGiven ==
    /\ planArgs.goal_weight.t # "none"
    /\ planArgs.deadline_days.t # "none"
    /\ planArgs.deadline_days.n > 0

\* C11 as stated: the plan carries the safety-cap note iff goal_weight and
\* deadline_days > 0 are both given and the raw daily delta lies outside
\* [-750, 500]; otherwise notes is empty.
C11_NoteIffOutsideRange ==
    planRes # NoPlan =>
        /\ planRes.notes \in {<<>>, <<CapNote>>}
        /\ planRes.notes = <<CapNote>> <=> (BothGiven /\ RawOutside(0))

\* C11 amended: the plan carries the safety-cap note iff goal_weight and
\* deadline_days > 0 are both given and the raw daily delta lies outside
\* [-750, 500] by more than 1e-6 kcal; otherwise notes is empty.
C11_NoteIffCapChanged ==
    planRes # NoPlan =>
        /\ planRes.notes \in {<<>>, <<CapNote>>}
        /\ planRes.notes = <<CapNote>>
              <=> (BothGiven /\ RawOutside((10 * planArgs.deadline_days.n) \div 1000000))

C11_Witness ==
    /\ planRes # NoPlan
    /\ planArgs.goal_weight = PyFloat(75000)
    /\ planArgs.weight_kg = 60000
    /\ planArgs.deadline_days = PyInt(30)
    /\ planRes.notes = <<CapNote>>
    /\ planRes.delta_kcal = 500

\* C12: for all valid inputs the plan build_plan returns has target_kcal >=
\* 1200, also when tdee + delta_kcal is far below 1200.
C12_TargetAtLeastFloor ==
    planRes # NoPlan => planRes.target_kcal >= 1200

\* tdee + delta_kcal is below 400 kcal and the target is the floor
C12_Witness ==
    /\ planRes # NoPlan
    /\ planRes.tdee + 100 * planRes.delta_kcal < 40000
    /\ planRes.target_kcal = 1200

\* the preset the claims give for the drawn mode
PresetOfArgs ==
    IF planArgs.mode = "cut" THEN 0 - 500
    ELSE IF planArgs.mode = "bulk" THEN 300
    ELSE 0

\* the goal-derived daily delta of the drawn arguments, clamped to [-750, 500]
\* and rounded to an integer as the plan reports it
ClampedOfArgs ==
    LET excess == (planArgs.goal_weight.n - planArgs.weight_kg) * 77
        days == planArgs.deadline_days.n
    IN  RoundHalfEven(Max(Min(excess, 5000 * days), (0 - 7500) * days), 10 * days)

\* C13: when goal_weight is absent, or deadline_days is absent or not > 0, or
\* goal_weight equals weight_kg (the clamped goal-derived delta is exactly 0),
\* delta_kcal is the mode preset: -500 for cut, +300 for bulk, 0 for recomp and
\* for an unset or unrecognized mode; in every other case delta_kcal is the
\* clamped goal-derived delta, whatever the mode.
C13_PresetOrGoalDelta ==
    planRes # NoPlan =>
        IF ~BothGiven \/ planArgs.goal_weight.n = planArgs.weight_kg
        THEN planRes.delta_kcal = PresetOfArgs
        ELSE planRes.delta_kcal = ClampedOfArgs

\* a goal above the weight with mode cut: the goal-derived surplus wins
C13_Witness ==
    /\ planRes # NoPlan
    /\ planArgs.mode = "cut"
    /\ planArgs.weight_kg = 60000
    /\ planArgs.goal_weight = PyFloat(60100)
    /\ planArgs.deadline_days = PyInt(30)
    /\ planRes.delta_kcal = 26

\* the classification the claim gives for a non-empty history and a mode:
\* daily_change = (last.weight - first.weight) / max(days_between, 1) over the
\* last 7 entries, 0 with fewer than 2 entries
Classified(h, mode) ==
    LET n == Len(h)
        first == h[IF n > 7 THEN n - 6 ELSE 1]
        days == Max((h[n].date - first.date) \div 2, 1)
        change == IF n < 2 THEN 0 ELSE h[n].weight - first.weight
    IN  IF mode = "cut" THEN
            IF change < (0 - 150) * days THEN "cut_too_fast"
            ELSE IF change > 50 * days THEN "cut_gaining"
            ELSE "cut_good_pace"
        ELSE IF mode = "bulk" THEN
            IF change > 250 * days THEN "bulk_too_fast"
            ELSE IF change < 50 * days THEN "bulk_hard_to_gain"
            ELSE "bulk_good_pace"
        ELSE
            IF change < 50 * days /\ change > (0 - 50) * days THEN "recomp_maintaining"
            ELSE "recomp_fluctuation"

\* C14: for every non-empty history with non-decreasing timestamps and every
\* mode, suggest_after_log classifies daily_change = (last.weight -
\* first.weight) / max(days_between, 1) over the last 7 entries (0 with fewer
\* than 2 entries) by the thresholds of the mode (cut: < -0.15 too fast, > 0.05
\* gaining, else good pace; bulk: > 0.25 too fast, < 0.05 hard to gain, else
\* good pace; recomp or an unrecognized mode: |daily_change| < 0.05
\* maintaining, else fluctuation); for the empty history it returns the
\* start-logging guidance.
C14_SuggestClassifies ==
    trendRes.done =>
        trendRes.sugg = IF trendArgs.history = <<>> THEN "start_logging"
                        ELSE Classified(trendArgs.history, trendArgs.mode)

\* eight entries: the first one is outside the last 7
C14_Witness ==
    /\ trendRes.done
    /\ Len(trendArgs.history) = 8
    /\ trendArgs.history[1].weight = 79000
    /\ trendArgs.history[8].weight = 80100
    /\ trendArgs.mode = "bulk"
    /\ trendRes.sugg = "bulk_good_pace"

\* two entries one day apart, the first one of 80 kg
TwoPointHistories ==
    {<<[date |-> 0, weight |-> 80000], [date |-> 2, weight |-> e.weight]>> :
        e \in SuggestEntries}

\* the suggestions two-point histories reach in a mode
Outcomes(mode) == {suggest_after_log(h, mode, 7) : h \in TwoPointHistories}

\* C15 as stated: in each of the modes cut, bulk and recomp suggest_after_log
\* has three branches, each reached by some two-point history.
C15_ThreeBranchesPerMode ==
    (trendRes.done /\ trendArgs.mode \in {"cut", "bulk", "recomp"})
        => Cardinality(Outcomes(trendArgs.mode)) = 3

\* the branches of a mode
Branches(mode) ==
    IF mode = "cut" THEN {"cut_too_fast", "cut_gaining", "cut_good_pace"}
    ELSE IF mode = "bulk" THEN {"bulk_too_fast", "bulk_hard_to_gain", "bulk_good_pace"}
    ELSE {"recomp_maintaining", "recomp_fluctuation"}

\* C15 amended: two-point histories reach each of the three branches of cut,
\* each of the three branches of bulk and each of the two branches of recomp,
\* which has no third one; 80 kg then 79.0 kg one day apart reaches too fast
\* in mode cut.
C15_BranchesReachable ==
    (trendRes.done /\ trendArgs.mode \in {"cut", "bulk", "recomp"}) =>
        /\ Outcomes(trendArgs.mode) = Branches(trendArgs.mode)
        /\ (/\ trendArgs.mode = "cut"
            /\ trendArgs.history \in TwoPointHistories
            /\ trendArgs.history[2].weight = 79000) => trendRes.sugg = "cut_too_fast"

C15_Witness ==
    /\ trendRes.done
    /\ trendArgs.mode = "cut"
    /\ trendArgs.history = <<[date |-> 0, weight |-> 80000], [date |-> 2, weight |-> 79000]>>
    /\ trendRes.sugg = "cut_too_fast"

\* the summaries of the drawn history for the windows of 0, 7 and 30 days
Summaries == {trendRes.s0, trendRes.s7, trendRes.s30}

\* C16: summarise_history returns the empty summary (count 0) for the empty
\* history; for a single-entry history and every window it returns count 1,
\* delta 0 and trend flat; for a non-empty history and a window of at least 0
\* days the last entry is inside the window, so count >= 1, and the count of
\* the 7-day window is at most the count of the 30-day window.
C16_SummaryCounts ==
    trendRes.done =>
        LET h == trendArgs.history
        IN  /\ h = <<>> => \A s \in Summaries : s.count = 0
            /\ Len(h) = 1 =>
                  \A s \in Summaries : s.count = 1 /\ s.delta = 0 /\ s.trend = "flat"
            /\ h # <<>> =>
                  /\ \A s \in Summaries :
                        /\ s.count >= 1
                        /\ s.to = h[Len(h)].date \div 2
                        /\ s.end = h[Len(h)].weight
                  /\ trendRes.s7.count <= trendRes.s30.count

\* three entries: one older than 30 days, one older than 7 days
C16_Witness ==
    /\ trendRes.done
    /\ Len(trendArgs.history) = 3
    /\ trendRes.s0.count = 1
    /\ trendRes.s7.count = 1
    /\ trendRes.s30.count = 2

\* C17: the sessions of different users are independent: a step for a user
\* leaves the persisted session of every other user unchanged, and the reply
\* (or fault) of the step is the one the loop body gives for the user's own
\* session, the text and the clock, whatever the other sessions are.
C17_UsersIndependent ==
    [][\A u \in DOMAIN store :
          last'.uid = u =>
              /\ \A v \in DOMAIN store \ {u} : store'[v] = store[v]
              /\ \E now \in 0..MaxTime :
                    LET out == Outcome(LoadFile(store[u]), last'.text, now)
                    IN  /\ last'.fault = out.fault
                        /\ last'.reply = out.reply
                        /\ store'[u] = IF out.saved THEN DumpState(out.state)
                                       ELSE store[u]]_vars

\* u1 has logged a weight while u2, with a profile of their own, is in onboarding
C17_Witness ==
    /\ last.uid = "u1"
    /\ last.reply.kind = "logged"
    /\ Session("u1").history # <<>>
    /\ Session("u2").stage = "onboarding"
    /\ Session("u2").profile["sex"] = PyStr("male")
    /\ Session("u1").profile["sex"] = Absent

\* worker w ends its step
Finishes(w) == flight[w].busy /\ ~flight'[w].busy

\* session after holds the update of the step on top of session base: a
\* successful log appended one entry, a successful profile set stored the value
Reflected(base, after, text, r) ==
    /\ r.kind = "logged" =>
          /\ Len(after.history) = Len(base.history) + 1
          /\ SubSeq(after.history, 1, Len(base.history)) = base.history
          /\ after.history[Len(after.history)].weight = Round2(r.value.n)
          /\ after.profile = base.profile
    /\ r.kind = "updated" =>
          /\ after.profile = [base.profile EXCEPT ![text[3]] = r.value]
          /\ after.history = base.history
    /\ r.kind = "reset" => after = FreshSession

\* C18: a step loads the session, mutates it and persists it without mutual
\* exclusion.  A step that had no other step of its user in flight with it
\* is reflected in the persisted session: a successful log adds one entry to
\* the persisted history, a reset empties it, a successful profile set stores
\* its value, so the history length is the number of successful logs since the
\* last reset.  Whatever overlapped, what a step persists is the session it
\* loaded with its own update only (last write wins), and a step that does
\* not save leaves the file as it is.
C18_LastWriteWins ==
    [][\A w \in Workers :
          Finishes(w) =>
              LET step == flight[w]
                  before == LoadFile(store[step.uid])
                  after == LoadFile(store'[step.uid])
              IN  /\ last'.uid = step.uid /\ last'.text = step.text
                  /\ Reflected(step.state, after, step.text, last'.reply)
                  /\ step.sole => Reflected(before, after, step.text, last'.reply)
                  /\ last'.reply.kind \notin {"logged", "updated", "reset"}
                        => store' = store]_vars

\* the lost update: a profile set and a log overlapped, both were answered as
\* done, and the persisted session holds the entry but not the profile value
C18_Witness ==
    /\ ~flight["w1"].busy /\ ~flight["w1"].sole /\ flight["w1"].kind = "updated"
    /\ ~flight["w2"].busy /\ ~flight["w2"].sole /\ flight["w2"].kind = "logged"
    /\ last.reply.kind = "logged"
    /\ Session("u1").profile["sex"] = Absent
    /\ Len(Session("u1").history) = 1

\* C19: in every session reachable from the default session, stage is idle or
\* onboarding, onboard_idx is in 0..8, stage = onboarding implies onboard_idx
\* <= 7, so that ONBOARD_KEYS[onboard_idx] is in range whenever an answer is
\* processed, and onboard_idx = 8 occurs only with stage = idle.
C19_StageAndIndex ==
    \A u \in DOMAIN store :
        /\ Session(u).stage \in {"idle", "onboarding"}
        /\ Session(u).onboard_idx \in 0..8
        /\ Session(u).stage = "onboarding" => Session(u).onboard_idx <= 7
        /\ Session(u).onboard_idx = 8 => Session(u).stage = "idle"

\* the last answer was given
C19_Witness ==
    /\ last.uid \in DOMAIN store
    /\ Dispatch(last.text, [Session(last.uid) EXCEPT !.stage = "onboarding"]) = "onboarding"
    /\ Session(last.uid).onboard_idx = 8
    /\ Session(last.uid).stage = "idle"

\* C20: in every run from the default session, also with commands between the
\* onboarding answers, whenever an onboarding answer makes onboard_idx reach 8
\* the stage becomes idle, the profile holds all eight onboarding keys, and the
\* reply is a plan and not the notice that the settings are incomplete.
C20_FinishGivesPlan ==
    [][\A u \in DOMAIN store :
          (/\ last'.uid = u
           /\ Dispatch(last'.text, Session(u)) = "onboarding"
           /\ LoadFile(store'[u]).onboard_idx = 8)
          => /\ LoadFile(store'[u]).stage = "idle"
             /\ \A k \in ProfileKeys : LoadFile(store'[u]).profile[k] # Absent
             /\ last'.reply.kind = "finished"
             /\ last'.reply.plan # NoPlan]_vars

====
